---- MODULE Spec2Model ----
(***************************************************************************)
(* A model of ColumnParser (src/ts/input/tex/ColumnParser.ts): the parser  *)
(* of array column templates.  One call of process(template, array) is     *)
(* run step by step: one step per scan-loop iteration (the handler of the  *)
(* dispatched character), one per iteration of the two loops of getBraces, *)
(* and one for the finalization that writes the caller's array record.     *)
(*                                                                         *)
(* JavaScript values: a string is a TLA+ string; `undefined` is the value  *)
(* Undefined; an array is the function of its own index properties (its    *)
(* domain may have gaps: the holes of a sparse array, and may hold -1).    *)
(***************************************************************************)
EXTENDS Integers, Sequences, FiniteSets, TLC

VARIABLES
  template,   \* state.template
  i,          \* state.i, the cursor
  c,          \* state.c, the specifier being handled
  j,          \* state.j, the column number
  calign,     \* state.calign
  cwidth,     \* state.cwidth
  clines,     \* state.clines
  cstart,     \* state.cstart
  cend,       \* state.cend
  ralign,     \* array.ralign (state.ralign is the same object)
  arraydef,   \* array.arraydef: columnalign, columnwidth, columnlines
  frame,      \* array.frame
  dashed,     \* array.dashed
  pc,         \* where the call is: loop, getBraces, scan, done, error
  caller,     \* which reader called getBraces: getAlign, getDimen, handler
  start,      \* getBraces' local i: the index after the opening brace
  braces,     \* getBraces' local braces: the nesting depth
  ret,        \* the value the last call of getBraces returned
  error,      \* the error thrown, if any
  prior,      \* the caller's record as it was before the call
  earlier,    \* the outcome of the caller's earlier call, if there was one
  a11y,       \* ExplorerPool: document.options.a11y[key], as a truth value
  attached,   \* ExplorerPool.attached
  restart,    \* ExplorerPool.restart
  explorers,  \* ExplorerPool.explorers: each explorer's flags
  calls,      \* history: the explorer methods the pool's last method called
  op,         \* history: the pool's method that ran last
  before,     \* history: the active flags before each reattach() since the
              \* last Restart()
  dispatched  \* history: the characters the scan loop took, each with the
              \* state.j and the index state.i it was taken at

state == <<template, i, c, j, calign, cwidth, clines, cstart, cend>>
array == <<ralign, arraydef, frame, dashed>>
pool == <<a11y, attached, restart, explorers, calls, op, before>>
\* what a call of process leaves alone
outer == <<prior, earlier, pool>>
\* what the pool leaves alone
parser == <<state, array, pc, caller, start, braces, ret, error, prior, earlier,
            dispatched>>
vars == <<state, array, pc, caller, start, braces, ret, error, outer, dispatched>>

-----------------------------------------------------------------------------
(* Bounds *)

\* Templates are made of at most MaxWords words of Words.
MaxWords == 3

\* The pool holds the first MaxKeys explorers of allExplorers.
MaxKeys == 5

\* At most MaxCalls calls of reattach() between two calls of Restart().
MaxCalls == 2

-----------------------------------------------------------------------------
(* JavaScript strings and arrays *)

Undefined == "<undefined>"

Truthy(v) == v # Undefined /\ v # ""

\* s[k]: the character at index k, undefined outside the string
CharAt(s, k) == IF 0 <= k /\ k < Len(s) THEN SubSeq(s, k + 1, k + 1) ELSE Undefined

\* s.charAt(k): the character at index k, '' outside the string
charAt(s, k) == IF 0 <= k /\ k < Len(s) THEN SubSeq(s, k + 1, k + 1) ELSE ""

Min(a, b) == IF a < b THEN a ELSE b

\* s.slice(a, b) for 0 <= a
slice(s, a, b) == SubSeq(s, a + 1, Min(b, Len(s)))

Upper == "ABCDEFGHIJKLMNOPQRSTUVWXYZ"
Lower == "abcdefghijklmnopqrstuvwxyz"

LowerChar(ch) ==
  IF \E k \in 1..Len(Upper) : SubSeq(Upper, k, k) = ch
    THEN LET k == CHOOSE n \in 1..Len(Upper) : SubSeq(Upper, n, n) = ch
         IN  SubSeq(Lower, k, k)
    ELSE ch

\* toLowerCase left out
toLowerCase_Identity(s) == s

RECURSIVE toLowerCase(_)
toLowerCase(s) ==
  IF s = "" THEN "" ELSE LowerChar(SubSeq(s, 1, 1)) \o toLowerCase(SubSeq(s, 2, Len(s)))

EmptyArray == <<>>

\* a.length of an array built by index assignment, push and pop
ArrLen(a) ==
  IF \E k \in DOMAIN a : k >= 0
    THEN 1 + CHOOSE k \in DOMAIN a : k >= 0 /\ \A m \in DOMAIN a : m <= k
    ELSE 0

\* a[k] = v
ArrSet(a, k, v) == [x \in DOMAIN a \cup {k} |-> IF x = k THEN v ELSE a[x]]

\* a[k]
ArrGet(a, k) == IF k \in DOMAIN a THEN a[k] ELSE Undefined

\* [...a]: a dense copy, the holes read as undefined
Spread(a) == [k \in 0..(ArrLen(a) - 1) |-> ArrGet(a, k)]

\* a.push(v), a.pop() and a.slice(1) on a dense array
push(a, v) == ArrSet(a, ArrLen(a), v)
pop(a) == [k \in DOMAIN a \ {ArrLen(a) - 1} |-> a[k]]
slice1(a) == [k \in 0..(ArrLen(a) - 2) |-> a[k + 1]]

\* a.map(x => x || def)
mapOr(a, def) == [k \in DOMAIN a |-> IF Truthy(a[k]) THEN a[k] ELSE def]

JoinText(v) == IF v = Undefined THEN "" ELSE v

RECURSIVE JoinFrom(_, _)
JoinFrom(a, k) ==
  IF k >= ArrLen(a) THEN ""
  ELSE (IF k > 0 THEN " " ELSE "") \o JoinText(ArrGet(a, k)) \o JoinFrom(a, k + 1)

\* a.join(' ')
join(a) == JoinFrom(a, 0)

-----------------------------------------------------------------------------
(* Collaborators *)

Digits == {"0", "1", "2", "3", "4", "5", "6", "7", "8", "9"}
Units == {"pt", "em", "ex", "mu", "px", "mm", "cm", "in", "pc"}

\* ParseUtil.matchDimen(dim)[0] is truthy: dim is a number and a unit
matchDimen(dim) ==
  /\ Len(dim) >= 3
  /\ SubSeq(dim, Len(dim) - 1, Len(dim)) \in Units
  /\ \A k \in 1..(Len(dim) - 2) : SubSeq(dim, k, k) \in Digits

\* What the validator does with undefined is not part of its contract.
DimenOfUndefined == {"TypeError", "MissingColumnDimOrUnits"}

\* lookup(name, {l: 'left', c: 'center', r: 'right'}, '')
lookup(name) ==
  CASE name = "l" -> "left"
    [] name = "c" -> "center"
    [] name = "r" -> "right"
    [] OTHER -> ""

\* TEXCLASS.VTOP, TEXCLASS.VCENTER, TEXCLASS.VBOX
VTOP == "VTOP"
VCENTER == "VCENTER"
VBOX == "VBOX"

-----------------------------------------------------------------------------
(* The handler table *)

AlignChars == {"l", "c", "r"}
BoxChars == {"p", "m", "b"}
WidthChars == {"w", "W"}
LineChars == {"|", ":"}
IgnoreChars == {"@", "!"}

\* HandlerChars with the entry for ! left out
HandlerChars_NoBang ==
  AlignChars \cup BoxChars \cup WidthChars \cup LineChars \cup {"@", ">", "<", " "}

\* the keys of columnHandler
HandlerChars ==
  AlignChars \cup BoxChars \cup WidthChars \cup LineChars \cup IgnoreChars
    \cup {">", "<", " "}

\* AlignOf with the c and r handlers exchanged
AlignOf_Swapped(ch) ==
  CASE ch = "l" -> "left" [] ch = "c" -> "right" [] ch = "r" -> "center"

\* the alignment the l, c, r handlers store
AlignOf(ch) == CASE ch = "l" -> "left" [] ch = "c" -> "center" [] ch = "r" -> "right"

\* the style the | and : handlers store
LineOf(ch) == CASE ch = "|" -> "solid" [] ch = ":" -> "dashed"

\* ClassOf with every handler passing VTOP
ClassOf_AllTop(ch) == VTOP

\* the vertical class the p, m, b, w, W handlers pass to getColumn
ClassOf(ch) ==
  CASE ch = "p" -> VTOP
    [] ch = "m" -> VCENTER
    [] ch = "b" -> VBOX
    [] ch = "w" -> VTOP
    [] ch = "W" -> VTOP

-----------------------------------------------------------------------------
(* ExplorerPool *)

\* allExplorers, lines 88-139: its keys, in the order Object.keys gives them
AllKeys ==
  <<"braille", "speech", "keyMagnifier", "mouseMagnifier", "hover", "infoType",
    "infoRole", "infoPrefix", "flame", "treeColoring">>

Keys == SubSeq(AllKeys, 1, MaxKeys)

KeySet == {Keys[n] : n \in 1..Len(Keys)}

\* the explorers made by ke.SpeechExplorer and ke.Magnifier: the instances of
\* ke.AbstractKeyExplorer
KeyExplorers == {"braille", "speech", "keyMagnifier"} \cap KeySet

\* an explorer as its constructor leaves it
NewExplorer == [attached |-> FALSE, stoppable |-> FALSE, active |-> FALSE]

\* Explorer.Attach(), Explorer.Detach(), Explorer.Start(), Explorer.Stop()
Attach(explorer) == [explorer EXCEPT !.attached = TRUE]
Detach(explorer) == [explorer EXCEPT !.attached = FALSE]
Start(explorer) == [explorer EXCEPT !.active = TRUE]
Stop(explorer) == [explorer EXCEPT !.active = FALSE]

\* AttachKey putting a key explorer at the end of keyExplorers
AttachKey_Push(o, key) ==
  LET isKey == key \in KeyExplorers
      explorer == IF isKey THEN [o.explorers[key] EXCEPT !.stoppable = FALSE]
                  ELSE o.explorers[key]
  IN  [explorers |-> [o.explorers EXCEPT
                        ![key] = IF a11y[key] THEN Attach(explorer)
                                 ELSE Detach(explorer)],
       attached |-> IF a11y[key] THEN Append(o.attached, key) ELSE o.attached,
       keyExplorers |-> IF isKey THEN Append(o.keyExplorers, key)
                        ELSE o.keyExplorers,
       calls |-> Append(o.calls, <<key, IF a11y[key] THEN "Attach" ELSE "Detach">>)]

\* lines 204-215: the body of attach's first loop, for one key
AttachKey(o, key) ==
  LET isKey == key \in KeyExplorers
      explorer == IF isKey THEN [o.explorers[key] EXCEPT !.stoppable = FALSE]
                  ELSE o.explorers[key]
  IN  [explorers |-> [o.explorers EXCEPT
                        ![key] = IF a11y[key] THEN Attach(explorer)
                                 ELSE Detach(explorer)],
       attached |-> IF a11y[key] THEN Append(o.attached, key) ELSE o.attached,
       keyExplorers |-> IF isKey THEN <<key>> \o o.keyExplorers
                        ELSE o.keyExplorers,
       calls |-> Append(o.calls, <<key, IF a11y[key] THEN "Attach" ELSE "Detach">>)]

\* lines 201-216: attach's first loop, over the first n keys
RECURSIVE AttachKeys(_, _)
AttachKeys(all, n) ==
  IF n = 0
    THEN [explorers |-> all, attached |-> <<>>, keyExplorers |-> <<>>,
          calls |-> <<>>]
  ELSE LET o == AttachKeys(all, n - 1) IN AttachKey(o, Keys[n])

\* lines 219-224: attach's second loop
RECURSIVE Stoppable(_, _)
Stoppable(all, keyExplorers) ==
  IF keyExplorers = <<>> THEN all
  ELSE IF all[Head(keyExplorers)].attached
    THEN [all EXCEPT ![Head(keyExplorers)].stoppable = TRUE]
  ELSE Stoppable(all, Tail(keyExplorers))

\* lines 200-226, on the explorers all: what attach() leaves
Attaching(all) ==
  LET o == AttachKeys(all, Len(Keys))
  IN  /\ attached' = o.attached
      /\ explorers' = Stoppable(o.explorers, o.keyExplorers)
      /\ calls' = o.calls
      /\ op' = "attach"

attach ==
  /\ Attaching(explorers)
  /\ UNCHANGED <<a11y, restart, before, parser>>

\* the options change between two calls of the pool: a11y[key] is set or unset
SetOption ==
  /\ \E key \in KeySet : a11y' = [a11y EXCEPT ![key] = ~@]
  /\ op' = "option"
  /\ calls' = <<>>
  /\ UNCHANGED <<attached, restart, explorers, before, parser>>

\* ReattachKey recording and stopping an explorer whether it is active or not
ReattachKey_All(o, key) ==
  [explorers |-> [o.explorers EXCEPT ![key] = Stop(@)],
   restart |-> Append(o.restart, key),
   calls |-> Append(o.calls, <<key, "Stop">>)]

\* lines 230-234: the body of reattach's loop, for one key
ReattachKey(o, key) ==
  IF o.explorers[key].active
    THEN [explorers |-> [o.explorers EXCEPT ![key] = Stop(@)],
          restart |-> Append(o.restart, key),
          calls |-> Append(o.calls, <<key, "Stop">>)]
  ELSE o

\* lines 229-235: reattach's loop, over the first n keys of attached
RECURSIVE ReattachKeys(_)
ReattachKeys(n) ==
  IF n = 0 THEN [explorers |-> explorers, restart |-> restart, calls |-> <<>>]
  ELSE LET o == ReattachKeys(n - 1) IN ReattachKey(o, attached[n])

\* the active flags, as reattach() finds them
Active == [key \in KeySet |-> explorers[key].active]

reattach ==
  /\ LET o == ReattachKeys(Len(attached))
     IN  /\ explorers' = o.explorers
         /\ restart' = o.restart
         /\ calls' = o.calls
  /\ before' = IF op = "reattach" THEN Append(before, Active) ELSE <<Active>>
  /\ Len(before') <= MaxCalls
  /\ op' = "reattach"
  /\ UNCHANGED <<a11y, attached, parser>>

\* line 239: forEach over the first n keys of restart
RECURSIVE RestartKeys(_)
RestartKeys(n) ==
  IF n = 0 THEN [explorers |-> explorers, calls |-> <<>>]
  ELSE LET o == RestartKeys(n - 1)
       IN  [explorers |-> [o.explorers EXCEPT ![restart[n]] = Start(@)],
            calls |-> Append(o.calls, <<restart[n], "Start">>)]

Restart ==
  /\ LET o == RestartKeys(Len(restart))
     IN  /\ explorers' = o.explorers
         /\ calls' = o.calls
  /\ restart' = <<>>
  /\ op' = "Restart"
  /\ UNCHANGED <<a11y, attached, before, parser>>

\* the explorers all, once the user has started those of keys
Started(all, keys) ==
  [key \in KeySet |-> IF key \in keys THEN Start(all[key]) ELSE all[key]]

\* lines 186-195: the pool as its constructor leaves it, which ends with
\* attach(); the user has started some of the explorers since
Constructed(options, started) ==
  /\ a11y \in options
  /\ LET o == AttachKeys([key \in KeySet |-> NewExplorer], Len(Keys))
     IN  /\ attached = o.attached
         /\ explorers \in {Started(Stoppable(o.explorers, o.keyExplorers), keys) :
                             keys \in started}
         /\ calls = o.calls
  /\ restart = <<>>
  /\ op = "attach"
  /\ before = <<>>

\* the pool of a document with every option unset
NoPool == Constructed({[key \in KeySet |-> FALSE]}, {{}})

-----------------------------------------------------------------------------
(* The inputs *)

Words ==
  {"l", "c", "r", "p", "m", "b", "w", "W", "|", ":", ">", "<", "@", "!", " ",
   "x", "{", "}", "\\", "{3cm}", "{x}"}

Examples ==
  {"|l|c|r|", "p{1cm}cc", "p{3cm}c", "lp{3cm}cc", "l:c", ":l|c:",
   "@{a{b}c}", "@{a\\}b}", "@ {a{b}c}l", ">{a{b}c}l<{\\{}",
   "w{l}{3cm}", "W{lc}{3cm}|", "p  ", "l> ", "wc ", "w {c} {3cm} c", "w{c} {3cm}c", "|<{x}l", "<{x}", "<x<{y}p{2em}|",
   "w{L}{3cm}", "WR{2em}", "wL{x}", "L", "lcrrcl",
   "@{a\\}", "@{a{b}", "l!{a\\", "|lcc", "l|ccc", "m{2em}:b{10pt}",
   "wC{1cm}r", "W{r}{1cm}w{x}{2em}"}

RECURSIVE Concats(_)
Concats(n) ==
  IF n = 0 THEN {""} ELSE {""} \cup {w \o s : w \in Words, s \in Concats(n - 1)}

Templates == Concats(MaxWords) \cup Examples

NoError == [name |-> "", arg |-> ""]

FreshRecord ==
  [ralign |-> EmptyArray,
   arraydef |-> [columnalign |-> Undefined, columnwidth |-> Undefined,
                 columnlines |-> Undefined],
   frame |-> <<>>,
   dashed |-> FALSE]

UsedRecord ==
  [ralign |-> ArrSet(EmptyArray, 0, <<VBOX, "2em", "left">>),
   arraydef |-> [columnalign |-> "center right", columnwidth |-> "auto 2em",
                 columnlines |-> "dashed"],
   frame |-> <<"left">>,
   dashed |-> TRUE]

Records == {FreshRecord, UsedRecord}

-----------------------------------------------------------------------------
(* process: the state after lines 98-103 *)

InitWith(templates, records) ==
  /\ template \in templates
  /\ prior \in records
  /\ i = 0
  /\ j = 0
  /\ c = ""
  /\ cwidth = EmptyArray
  /\ calign = EmptyArray
  /\ clines = EmptyArray
  /\ cstart = EmptyArray
  /\ cend = EmptyArray
  /\ ralign = prior.ralign
  /\ arraydef = prior.arraydef
  /\ frame = prior.frame
  /\ dashed = prior.dashed
  /\ pc = "loop"
  /\ caller = ""
  /\ start = 0
  /\ braces = 0
  /\ ret = ""
  /\ error = NoError
  /\ dispatched = <<>>
  /\ earlier = <<>>

Init == NoPool /\ InitWith(Templates, Records)

\* throw new TexError(name, ..., arg)
Throw(name, arg) ==
  /\ pc' = "error"
  /\ error' = [name |-> name, arg |-> arg]

\* lines 107-109: the loop test, and the character taken.  The templates of
\* the model hold no character outside the basic plane, so c.length is 1.
Fetch(chars) ==
  /\ pc = "loop"
  /\ i < Len(template)
  /\ CharAt(template, i) \in chars
  /\ c' = CharAt(template, i)
  /\ i' = i + 1
  /\ dispatched' = Append(dispatched, [c |-> c', j |-> j, at |-> i])

\* AlignHandler writing columnalign as it goes, not at finalization
AlignHandler_Eager ==
  /\ Fetch(AlignChars)
  /\ calign' = ArrSet(calign, j, AlignOf(c'))
  /\ j' = j + 1
  /\ arraydef' = [arraydef EXCEPT !.columnalign = join(calign')]
  /\ UNCHANGED <<template, cwidth, clines, cstart, cend, ralign, frame, dashed,
                 pc, caller, start, braces, ret, error, outer>>

\* l, c, r: state.calign[state.j++] = 'left' | 'center' | 'right'
AlignHandler ==
  /\ Fetch(AlignChars)
  /\ calign' = ArrSet(calign, j, AlignOf(c'))
  /\ j' = j + 1
  /\ UNCHANGED <<template, cwidth, clines, cstart, cend, array, pc, caller,
                 start, braces, ret, error, outer>>

\* p, m, b: getColumn(state, class) with calign = 'left'; line 160 stores the
\* alignment, and line 161 calls getDimen, which calls getBraces
BoxHandler ==
  /\ Fetch(BoxChars)
  /\ calign' = ArrSet(calign, j, "left")
  /\ pc' = "getBraces"
  /\ caller' = "getDimen"
  /\ UNCHANGED <<template, j, cwidth, clines, cstart, cend, array, start,
                 braces, ret, error, outer>>

\* w, W: getColumn(state, VTOP, ''); line 160 calls getAlign, which calls
\* getBraces
WidthHandler ==
  /\ Fetch(WidthChars)
  /\ pc' = "getBraces"
  /\ caller' = "getAlign"
  /\ UNCHANGED <<template, j, calign, cwidth, clines, cstart, cend, array,
                 start, braces, ret, error, outer>>

\* LineHandler moving on to the next column
LineHandler_Advances ==
  /\ Fetch(LineChars)
  /\ clines' = ArrSet(clines, j, LineOf(c'))
  /\ j' = j + 1
  /\ UNCHANGED <<template, calign, cwidth, cstart, cend, array, pc, caller,
                 start, braces, ret, error, outer>>

\* | and : store the style of the line at border position j
LineHandler ==
  /\ Fetch(LineChars)
  /\ clines' = ArrSet(clines, j, LineOf(c'))
  /\ UNCHANGED <<template, j, calign, cwidth, cstart, cend, array, pc, caller,
                 start, braces, ret, error, outer>>

\* >, <, @, !: each calls getBraces first
BraceHandler ==
  /\ Fetch(IgnoreChars \cup {">", "<"})
  /\ pc' = "getBraces"
  /\ caller' = "handler"
  /\ UNCHANGED <<template, j, calign, cwidth, clines, cstart, cend, array,
                 start, braces, ret, error, outer>>

\* ' ': nothing
SpaceHandler ==
  /\ Fetch({" "})
  /\ UNCHANGED <<template, j, calign, cwidth, clines, cstart, cend, array, pc,
                 caller, start, braces, ret, error, outer>>

\* lines 110-112: no handler for the character
BadColumnCharacter ==
  /\ pc = "loop"
  /\ i < Len(template)
  /\ CharAt(template, i) \notin HandlerChars
  /\ c' = CharAt(template, i)
  /\ i' = i + 1
  /\ dispatched' = Append(dispatched, [c |-> c', j |-> j, at |-> i])
  /\ Throw("BadColumnCharacter", c')
  /\ UNCHANGED <<template, j, calign, cwidth, clines, cstart, cend, array,
                 caller, start, braces, ret, outer>>

-----------------------------------------------------------------------------
(* getBraces and what its callers do with the argument *)

\* DimenRead with the error naming the argument, not the specifier
DimenRead_NamesDim(dim) ==
  IF dim = Undefined
    THEN /\ \E name \in DimenOfUndefined : Throw(name, c)
         /\ UNCHANGED <<j, calign, cwidth, ralign, cstart, cend>>
  ELSE IF ~matchDimen(dim)
    THEN /\ Throw("MissingColumnDimOrUnits", dim)
         /\ UNCHANGED <<j, calign, cwidth, ralign, cstart, cend>>
  ELSE /\ cwidth' = ArrSet(cwidth, j, dim)
       /\ ralign' = ArrSet(ralign, j, <<ClassOf(c), dim, ArrGet(calign, j)>>)
       /\ j' = j + 1
       /\ pc' = "loop"
       /\ UNCHANGED <<calign, cstart, cend, error>>

\* getDimen, lines 173-177, then getColumn, lines 161-163
DimenRead(dim) ==
  IF dim = Undefined
    THEN /\ \E name \in DimenOfUndefined : Throw(name, c)
         /\ UNCHANGED <<j, calign, cwidth, ralign, cstart, cend>>
  ELSE IF ~matchDimen(dim)
    THEN /\ Throw("MissingColumnDimOrUnits", c)
         /\ UNCHANGED <<j, calign, cwidth, ralign, cstart, cend>>
  ELSE /\ cwidth' = ArrSet(cwidth, j, dim)
       /\ ralign' = ArrSet(ralign, j, <<ClassOf(c), dim, ArrGet(calign, j)>>)
       /\ j' = j + 1
       /\ pc' = "loop"
       /\ UNCHANGED <<calign, cstart, cend, error>>

\* getAlign, line 187, then getColumn, lines 160-161: getDimen calls getBraces
AlignRead(align) ==
  IF align = Undefined
    THEN /\ Throw("TypeError", "toLowerCase")
         /\ UNCHANGED <<j, calign, cwidth, ralign, cstart, cend>>
  ELSE /\ calign' = ArrSet(calign, j, lookup(toLowerCase(align)))
       /\ pc' = "getBraces"
       /\ UNCHANGED <<j, cwidth, ralign, cstart, cend, error>>

\* HandlerRead with a guard: < before the first column is an error
HandlerRead_Guarded(arg) ==
  IF c = "<" /\ j = 0
    THEN /\ Throw("BadColumnCharacter", c)
         /\ UNCHANGED <<j, calign, cwidth, ralign, cstart, cend>>
  ELSE /\ cstart' = IF c = ">" THEN ArrSet(cstart, j, arg) ELSE cstart
       /\ cend' = IF c = "<" THEN ArrSet(cend, j - 1, arg) ELSE cend
       /\ pc' = "loop"
       /\ UNCHANGED <<j, calign, cwidth, ralign, error>>

\* the handlers of >, <, @ and !, lines 78-84, once getBraces has returned
HandlerRead(arg) ==
  /\ cstart' = IF c = ">" THEN ArrSet(cstart, j, arg) ELSE cstart
  /\ cend' = IF c = "<" THEN ArrSet(cend, j - 1, arg) ELSE cend
  /\ pc' = "loop"
  /\ UNCHANGED <<j, calign, cwidth, ralign, error>>

\* getBraces returns arg to its caller
Return(arg) ==
  /\ CASE caller = "getDimen" -> DimenRead(arg)
       [] caller = "getAlign" -> AlignRead(arg)
       [] caller = "handler" -> HandlerRead(arg)
  /\ caller' = IF caller = "getAlign" /\ arg # Undefined THEN "getDimen" ELSE ""
  /\ ret' = arg
  /\ start' = 0
  /\ braces' = 0

\* getBraces goes on
Continue ==
  UNCHANGED <<j, calign, cwidth, ralign, cstart, cend, pc, caller, ret, error>>

\* SkipSpace with the space taken as the argument
SkipSpace_Taken ==
  /\ pc = "getBraces"
  /\ CharAt(template, i) = " "
  /\ i' = i + 1
  /\ Return(" ")
  /\ UNCHANGED <<template, c, clines, arraydef, frame, dashed, outer, dispatched>>

\* SkipSpace with the increment of the cursor left out
SkipSpace_Stuck ==
  /\ pc = "getBraces"
  /\ CharAt(template, i) = " "
  /\ i' = i
  /\ Continue
  /\ UNCHANGED <<template, c, clines, array, start, braces, outer, dispatched>>

\* line 196: one iteration of the loop that skips spaces
SkipSpace ==
  /\ pc = "getBraces"
  /\ CharAt(template, i) = " "
  /\ i' = i + 1
  /\ Continue
  /\ UNCHANGED <<template, c, clines, array, start, braces, outer, dispatched>>

\* line 197: the test that no argument is left
NoArgument(k, length) == k > length

\* lines 197-203: after the spaces
ReadArg ==
  /\ pc = "getBraces"
  /\ CharAt(template, i) # " "
  /\ IF NoArgument(i, Len(template))
       THEN /\ Throw("MissingArgForColumn", c)
            /\ UNCHANGED <<i, j, calign, cwidth, ralign, cstart, cend, caller,
                           start, braces, ret>>
     ELSE IF CharAt(template, i) # "{"
       THEN /\ i' = i + 1
            /\ Return(CharAt(template, i))
     ELSE /\ i' = i + 1
          /\ start' = i + 1
          /\ braces' = 1
          /\ pc' = "scan"
          /\ UNCHANGED <<j, calign, cwidth, ralign, cstart, cend, caller, ret,
                         error>>
  /\ UNCHANGED <<template, c, clines, arraydef, frame, dashed, outer, dispatched>>

\* Advance with two characters skipped after a backslash
Advance_Double(ch) == IF ch = "\\" THEN 3 ELSE 1

\* Advance with the character after a backslash not skipped
Advance_NoEscape(ch) == 1

\* lines 205-206: how far the cursor moves over the character ch
Advance(ch) == IF ch = "\\" THEN 2 ELSE 1

\* Nesting with an opening brace inside the argument not counted
Nesting_NoOpen(ch, depth) == IF ch = "}" THEN depth - 1 ELSE depth

\* lines 207-209: the nesting depth after the character ch
Nesting(ch, depth) ==
  CASE ch = "{" -> depth + 1
    [] ch = "}" -> depth - 1
    [] OTHER -> depth

\* line 210: the argument, once the brace at index close has closed it
Braced(s, open, close) == slice(s, open, close)

\* lines 204-214: one iteration of the loop that looks for the closing brace
ScanBrace ==
  /\ pc = "scan"
  /\ i < Len(template)
  /\ LET ch == charAt(template, i)
         depth == Nesting(ch, braces)
     IN  /\ i' = i + Advance(ch)
         /\ IF ch = "}" /\ depth = 0
              THEN Return(Braced(template, start, i' - 1))
              ELSE braces' = depth /\ Continue /\ UNCHANGED start
  /\ UNCHANGED <<template, c, clines, arraydef, frame, dashed, outer, dispatched>>

\* line 215: the template ends inside the braces
MissingCloseBrace ==
  /\ pc = "scan"
  /\ i >= Len(template)
  /\ Throw("MissingCloseBrace", "")
  /\ UNCHANGED <<state, array, caller, start, braces, ret, outer, dispatched>>

-----------------------------------------------------------------------------
(* Finalization, lines 118-149 *)

\* ColumnWidth with no 'auto' added after the last declared width
ColumnWidth_NoPad == join(mapOr(Spread(cwidth), "auto"))

\* lines 123-128: the value of columnwidth
ColumnWidth ==
  LET copy == Spread(cwidth)
      padded == IF ArrLen(copy) < ArrLen(calign) THEN push(copy, "auto") ELSE copy
  IN  join(mapOr(padded, "auto"))

\* InnerLines with the right frame line left in
InnerLines_NoPop ==
  LET copy == Spread(clines) IN
    IF ArrLen(copy) < ArrLen(calign) THEN push(copy, "none") ELSE copy

\* lines 134, 140-146: the copy of clines once the frame is taken off
InnerLines ==
  LET copy == Spread(clines) IN
    IF ArrLen(copy) > ArrLen(calign) THEN pop(copy)
    ELSE IF ArrLen(copy) < ArrLen(calign) THEN push(copy, "none")
    ELSE copy

\* ColumnLines with the left-frame entry left in
ColumnLines_NoSlice == join(mapOr(InnerLines, "none"))

\* line 148: the value of columnlines
ColumnLines == join(mapOr(slice1(InnerLines), "none"))

\* FramePushed with the right frame taken when clines is as long as calign
FramePushed_Geq ==
  (IF Truthy(ArrGet(clines, 0)) THEN <<"left">> ELSE <<>>)
    \o (IF ArrLen(clines) >= ArrLen(calign) THEN <<"right">> ELSE <<>>)

\* lines 135-143: what is pushed on array.frame
FramePushed ==
  (IF Truthy(ArrGet(clines, 0)) THEN <<"left">> ELSE <<>>)
    \o (IF ArrLen(clines) > ArrLen(calign) THEN <<"right">> ELSE <<>>)

Finalize ==
  /\ pc = "loop"
  /\ i >= Len(template)
  /\ arraydef' =
       [arraydef EXCEPT
          !.columnalign = join(calign),
          !.columnwidth = IF ArrLen(cwidth) # 0 THEN ColumnWidth ELSE @,
          !.columnlines = IF ArrLen(clines) # 0 THEN ColumnLines ELSE @]
  /\ frame' = IF ArrLen(clines) # 0 THEN frame \o FramePushed ELSE frame
  /\ dashed' = IF ArrLen(clines) # 0 /\ Truthy(ArrGet(clines, 0))
                 THEN ArrGet(clines, 0) = "dashed"
                 ELSE dashed
  /\ pc' = "done"
  /\ UNCHANGED <<state, ralign, caller, start, braces, ret, error, outer, dispatched>>

-----------------------------------------------------------------------------

Next ==
  \/ AlignHandler
  \/ BoxHandler
  \/ WidthHandler
  \/ LineHandler
  \/ BraceHandler
  \/ SpaceHandler
  \/ BadColumnCharacter
  \/ SkipSpace
  \/ ReadArg
  \/ ScanBrace
  \/ MissingCloseBrace
  \/ Finalize

Spec == Init /\ [][Next]_vars

\* What a call of process leaves to its caller once it has returned or thrown.
Outcome ==
  [template |-> template, pc |-> pc, error |-> error, ret |-> ret,
   dispatched |-> dispatched, ralign |-> ralign, arraydef |-> arraydef,
   frame |-> frame, dashed |-> dashed]

\* The template t with part put in before the character at index k.
Insert(t, k, part) == SubSeq(t, 1, k) \o part \o SubSeq(t, k + 1, Len(t))

\* The template t without the characters at the indices a to b - 1.
Remove(t, a, b) == SubSeq(t, 1, a) \o SubSeq(t, b + 1, Len(t))

\* The templates of a second call: the first one with a space put in
\* somewhere, or with a part that begins with "<" taken out.
Variants(t) ==
  {Insert(t, k, " ") : k \in 0..Len(t)}
    \cup UNION {{Remove(t, a, b) : b \in (a + 1)..Len(t)} :
                   a \in {k \in 0..(Len(t) - 1) : CharAt(t, k) = "<"}}

\* The caller calls process again, on a variant of the template and a copy of
\* the record it gave to the first call: lines 98-103 once more.
Again ==
  /\ pc \in {"done", "error"}
  /\ earlier = <<>>
  /\ earlier' = <<Outcome>>
  /\ template' \in Variants(template)
  /\ i' = 0
  /\ j' = 0
  /\ c' = ""
  /\ cwidth' = EmptyArray
  /\ calign' = EmptyArray
  /\ clines' = EmptyArray
  /\ cstart' = EmptyArray
  /\ cend' = EmptyArray
  /\ ralign' = prior.ralign
  /\ arraydef' = prior.arraydef
  /\ frame' = prior.frame
  /\ dashed' = prior.dashed
  /\ pc' = "loop"
  /\ caller' = ""
  /\ start' = 0
  /\ braces' = 0
  /\ ret' = ""
  /\ error' = NoError
  /\ dispatched' = <<>>
  /\ UNCHANGED <<prior, pool>>

PairNext == Next \/ Again

\* Two calls of process, one after the other; the variants make the second
\* template longer, so the first is one word shorter.
PairInit == NoPool /\ InitWith(Concats(MaxWords - 1) \cup Examples, Records)

PairSpec == PairInit /\ [][PairNext]_vars

\* process is one synchronous call: it runs until it returns or throws.  The
\* scan reads nothing of the caller's record, so the fresh record is enough.
FairInit == NoPool /\ InitWith(Templates, {FreshRecord})

FairSpec == FairInit /\ [][Next]_vars /\ WF_vars(Next)

\* The pool alone: no call of process is under way.
NoCall == InitWith({""}, {FreshRecord})

\* The options are set and unset one by one, and attach() is called again at
\* any time.
PoolInit == NoCall /\ NoPool

PoolNext == attach \/ SetOption

PoolSpec == PoolInit /\ [][PoolNext]_vars

\* Calls of reattach() and Restart() only, on a pool some of whose explorers
\* are active.
RestartInit == NoCall /\ Constructed([KeySet -> BOOLEAN], SUBSET KeySet)

RestartNext == reattach \/ Restart

RestartSpec == RestartInit /\ [][RestartNext]_vars

-----------------------------------------------------------------------------
(* What the properties below are stated with *)

Returned == pc = "done"
Failed == pc = "error"
Fresh == prior = FreshRecord

\* The space-separated tokens of a string, the empty string having none.
RECURSIVE Split(_)
Split(s) ==
  IF \E k \in 1..Len(s) : SubSeq(s, k, k) = " "
    THEN LET k == CHOOSE n \in 1..Len(s) :
                    /\ SubSeq(s, n, n) = " "
                    /\ \A m \in 1..(n - 1) : SubSeq(s, m, m) # " "
         IN  <<SubSeq(s, 1, k - 1)>> \o Split(SubSeq(s, k + 1, Len(s)))
    ELSE <<s>>

Tokens(s) == IF s = "" THEN <<>> ELSE Split(s)

-----------------------------------------------------------------------------
(* C1 *)

\* C1, as the specification states it: process("|l|c|r|", meta) on a fresh
\* record gives columnalign "left center right", frame [left, right],
\* dashed false and columnlines "none none".
C1_AsStated ==
  (template = "|l|c|r|" /\ Fresh /\ Returned) =>
    /\ arraydef.columnalign = "left center right"
    /\ frame = <<"left", "right">>
    /\ dashed = FALSE
    /\ arraydef.columnlines = "none none"

\* C1, amended: process("|l|c|r|", meta) on a fresh record does not fail, and
\* gives columnalign "left center right", frame [left, right], dashed false
\* and columnlines "solid solid": the two lines between the columns are the
\* solid lines the template declares there.
C1_SolidInnerLines ==
  (template = "|l|c|r|" /\ Fresh) =>
    /\ ~Failed
    /\ Returned =>
         /\ arraydef.columnalign = "left center right"
         /\ frame = <<"left", "right">>
         /\ dashed = FALSE
         /\ arraydef.columnlines = "solid solid"
         /\ arraydef.columnwidth = Undefined

C1_Witness == template = "|l|c|r|" /\ Fresh /\ Returned /\ Len(dispatched) = 7

-----------------------------------------------------------------------------
(* C2 *)

ArgChars == {"p", "m", "b", "w", "W", ">", "<", "@", "!"}

\* Only spaces, if anything, from index k to the end of the template.
OnlySpacesFrom(k) ==
  \A m \in k..(Len(template) - 1) : CharAt(template, m) = " "

LastTaken == dispatched[Len(dispatched)]

\* The call has ended, and the last specifier the scan loop took needs an
\* argument and has nothing but spaces after it.
EndedOnArgChar ==
  /\ Returned \/ Failed
  /\ dispatched # <<>>
  /\ LastTaken.c \in ArgChars
  /\ OnlySpacesFrom(LastTaken.at + 1)

\* C2: when an argument-requiring specifier is the last specifier of the
\* template, with nothing after it but spaces, process fails with
\* MissingArgForColumn naming that specifier: it does not return, and it
\* fails in no other way.
C2_MissingArgForColumn ==
  EndedOnArgChar =>
    /\ Failed
    /\ error = [name |-> "MissingArgForColumn", arg |-> LastTaken.c]

-----------------------------------------------------------------------------
(* C3 *)

\* The first n columns' widths: the declared width, 'auto' where none is.
Widths(n) ==
  [k \in 1..n |-> IF Truthy(ArrGet(cwidth, k - 1)) THEN cwidth[k - 1] ELSE "auto"]

\* C3, as the specification states it: after a successful call that declared
\* a width, columnwidth has calign.length tokens, the declared width or
\* 'auto' for each column.
C3_AsStated ==
  (Returned /\ ArrLen(cwidth) > 0) =>
    Tokens(arraydef.columnwidth) = Widths(ArrLen(calign))

\* C3, amended: after a successful call that declared a width, columnwidth
\* has one token for each column up to the last one that declares a width
\* (the declared width, or 'auto' for a column that declares none), and one
\* more token 'auto' if any column follows it: cwidth.length tokens, or
\* cwidth.length + 1, and never more ("p{1cm}cc" gives "1cm auto").
C3_OneAutoAfterLastWidth ==
  (Returned /\ ArrLen(cwidth) > 0) =>
    /\ ArrLen(cwidth) <= ArrLen(calign)
    /\ Tokens(arraydef.columnwidth) =
         Widths(Min(ArrLen(calign), ArrLen(cwidth) + 1))

C3_Witness ==
  /\ Returned
  /\ ArrLen(cwidth) > 0
  /\ 0 \notin DOMAIN cwidth
  /\ ArrLen(calign) >= ArrLen(cwidth) + 2

-----------------------------------------------------------------------------
(* C4 *)

OnlyLCR(t) == \A k \in 1..Len(t) : SubSeq(t, k, k) \in {"l", "c", "r"}

AlignWord(ch) == IF ch = "l" THEN "left" ELSE IF ch = "c" THEN "center" ELSE "right"

\* C4: on a template of l, c and r only (the empty one too), process does not
\* fail; columnalign has one token for each character, left, center or right
\* for l, c or r, in the template's order; and columnwidth, columnlines,
\* frame and dashed are left as they were.
C4_AlignOnly ==
  OnlyLCR(template) =>
    /\ ~Failed
    /\ Returned =>
         /\ Tokens(arraydef.columnalign) =
              [k \in 1..Len(template) |-> AlignWord(SubSeq(template, k, k))]
         /\ arraydef.columnwidth = prior.arraydef.columnwidth
         /\ arraydef.columnlines = prior.arraydef.columnlines
         /\ frame = prior.frame
         /\ dashed = prior.dashed

C4_Witness ==
  /\ OnlyLCR(template)
  /\ Returned
  /\ arraydef.columnalign = "right center left"
  /\ prior = UsedRecord

-----------------------------------------------------------------------------
(* C5 *)

Producing == {"l", "c", "r", "p", "m", "b", "w", "W"}
Borders == {"|", ":"}

\* The border specifiers taken while j = 0, by their place in the history.
LeftBorders ==
  {k \in 1..Len(dispatched) : dispatched[k].c \in Borders /\ dispatched[k].j = 0}

LastLeftBorder == CHOOSE k \in LeftBorders : \A m \in LeftBorders : m <= k

\* A border specifier was taken after the last column-producing specifier.
RightBorder ==
  \E k \in 1..Len(dispatched) :
    /\ dispatched[k].c \in Borders
    /\ \A m \in (k + 1)..Len(dispatched) : dispatched[m].c \notin Producing

\* C5: after a successful call on a fresh record, frame holds 'left' iff a
\* border specifier was taken while j = 0, and 'right' iff one was taken after
\* the last column-producing specifier, left before right; dashed is true iff
\* the last border specifier taken at j = 0 is ':'.  "l:c" leaves frame empty
\* and gives columnlines "dashed".
C5_Frame ==
  (Returned /\ Fresh) =>
    /\ frame = (IF LeftBorders # {} THEN <<"left">> ELSE <<>>)
                 \o (IF RightBorder THEN <<"right">> ELSE <<>>)
    /\ dashed = (LeftBorders # {} /\ dispatched[LastLeftBorder].c = ":")
    /\ template = "l:c" => frame = <<>> /\ arraydef.columnlines = "dashed"

C5_Witness ==
  /\ Returned
  /\ Fresh
  /\ template = ":l|c:"
  /\ frame = <<"left", "right">>
  /\ dashed = TRUE

-----------------------------------------------------------------------------
(* C6 *)

KnownSpecifiers ==
  {"l", "c", "r", "p", "m", "b", "w", "W", "|", ":", ">", "<", "@", "!", " "}

\* C6: a character the scan loop takes that is no known specifier is the last
\* one it takes: process has failed with BadColumnCharacter reporting that
\* character, the cursor just after it; and a known specifier the loop takes
\* never gives BadColumnCharacter.
C6_BadColumnCharacter ==
  \A k \in 1..Len(dispatched) :
    IF dispatched[k].c \notin KnownSpecifiers
      THEN /\ k = Len(dispatched)
           /\ Failed
           /\ error = [name |-> "BadColumnCharacter", arg |-> dispatched[k].c]
           /\ i = dispatched[k].at + 1
      ELSE k = Len(dispatched) => error.name # "BadColumnCharacter"

C6_Witness ==
  /\ Failed
  /\ error = [name |-> "BadColumnCharacter", arg |-> "x"]
  /\ Len(dispatched) >= 2
  /\ i < Len(template)

-----------------------------------------------------------------------------
(* C7 *)

\* This step ends the call of getBraces that getDimen made, with a token read.
WidthRead ==
  /\ caller = "getDimen"
  /\ pc \in {"getBraces", "scan"}
  /\ pc' \notin {"getBraces", "scan"}
  /\ i' > i

\* The token that call read: one character, or what the braces hold.
WidthToken ==
  IF pc = "getBraces" THEN CharAt(template, i) ELSE SubSeq(template, start + 1, i)

\* C7: when p, m, b, w or W reads a width argument that is present and the
\* dimension validator rejects it, process fails with MissingColumnDimOrUnits
\* naming the specifier state.c, and ralign (and j) are left as they are.
C7_MissingColumnDimOrUnits ==
  [][(WidthRead /\ WidthToken # Undefined /\ ~matchDimen(WidthToken)) =>
       /\ c \in {"p", "m", "b", "w", "W"}
       /\ pc' = "error"
       /\ error' = [name |-> "MissingColumnDimOrUnits", arg |-> c]
       /\ ralign' = ralign
       /\ j' = j]_vars

C7_Witness ==
  /\ Failed
  /\ error = [name |-> "MissingColumnDimOrUnits", arg |-> "W"]
  /\ ret = "x"
  /\ prior = UsedRecord
  /\ j = 0

-----------------------------------------------------------------------------
(* C8 *)

\* C8: until process returns, and so whenever it fails, the caller's
\* columnalign, columnwidth, columnlines, frame and dashed are what they were
\* before the call.
C8_NoPartialResult ==
  ~Returned =>
    /\ arraydef = prior.arraydef
    /\ frame = prior.frame
    /\ dashed = prior.dashed

C8_Witness ==
  /\ Failed
  /\ error.name = "MissingColumnDimOrUnits"
  /\ ret # Undefined
  /\ ArrLen(calign) = 2
  /\ prior = UsedRecord
  /\ arraydef.columnalign = "center right"

-----------------------------------------------------------------------------
(* C9 *)

\* The step is an iteration of the scan loop, of the loop of getBraces that
\* skips spaces, or of its loop that looks for the closing brace.
Iteration ==
  \/ pc = "loop" /\ pc' # "done"
  \/ pc = "getBraces" /\ pc' = "getBraces"
  \/ pc = "scan" /\ error'.name # "MissingCloseBrace"

\* C9: process ends, returning or failing; and every iteration of its three
\* loops starts with the cursor inside the template and moves it forward, so
\* none makes more than template.length iterations.
C9_Terminates ==
  /\ <>(Returned \/ Failed)
  /\ [][Iteration => (0 <= i /\ i < Len(template) /\ i' > i)]_vars

C9_Witness ==
  /\ Returned
  /\ template = "w {c} {3cm} c"
  /\ i = Len(template)

-----------------------------------------------------------------------------
(* C10 *)

\* The index of the brace closing the nesting depth, looking from index k;
\* -1 if there is none.
RECURSIVE MatchFrom(_, _, _)
MatchFrom(t, k, depth) ==
  IF k >= Len(t) THEN -1
  ELSE LET ch == SubSeq(t, k + 1, k + 1) IN
    IF ch = "\\" THEN MatchFrom(t, k + 2, depth)
    ELSE IF ch = "{" THEN MatchFrom(t, k + 1, depth + 1)
    ELSE IF ch = "}" /\ depth = 1 THEN k
    ELSE IF ch = "}" THEN MatchFrom(t, k + 1, depth - 1)
    ELSE MatchFrom(t, k + 1, depth)

\* The index of the brace that closes the one at index open.
Closing(t, open) == MatchFrom(t, open + 1, 1)

\* C10: getBraces, on an opening brace (after the spaces) that has a matching
\* closing brace, returns what lies strictly between the two and leaves the
\* cursor just after the closing brace; braces nest, and the character after
\* a backslash does not count.  On "{a{b}c}" it returns "a{b}c".
C10_BracedArgument ==
  /\ [][(pc = "getBraces" /\ pc' = "scan") =>
          (CharAt(template, i) = "{" /\ start' = i + 1 /\ i' = i + 1)]_vars
  /\ [][(pc = "scan" /\ pc' # "scan" /\ Closing(template, start - 1) # -1) =>
          /\ ret' = SubSeq(template, start + 1, Closing(template, start - 1))
          /\ i' = Closing(template, start - 1) + 1
          /\ error'.name # "MissingCloseBrace"]_vars
  /\ []((template = "@{a{b}c}" /\ Returned) => (ret = "a{b}c" /\ i = 8))
  /\ []((template = "@{a\\}b}" /\ Returned) => (ret = "a\\}b" /\ i = 7))

C10_Witness ==
  /\ template = "@ {a{b}c}l"
  /\ pc = "loop"
  /\ ret = "a{b}c"
  /\ i = 9

-----------------------------------------------------------------------------
(* C11 *)

\* C11: when getBraces starts on an opening brace that no brace closes (the
\* template ends first: the closing braces are all escaped, or a backslash is
\* the last character), the scan ends in no other way than by process failing
\* with MissingCloseBrace.
C11_MissingCloseBrace ==
  [][(pc = "scan" /\ pc' # "scan" /\ Closing(template, start - 1) = -1) =>
       /\ pc' = "error"
       /\ error' = [name |-> "MissingCloseBrace", arg |-> ""]
       /\ i >= Len(template)
       /\ UNCHANGED <<state, array, ret>>]_vars

C11_Witness ==
  /\ Failed
  /\ error.name = "MissingCloseBrace"
  /\ template = "l!{a\\"
  /\ i > Len(template)

-----------------------------------------------------------------------------
(* C12 *)

\* C12: when p, m or b, taken at column j, reads a width d that the validator
\* accepts, the step writes ralign[j] = (VTOP for p, VCENTER for m, VBOX for
\* b; d; 'left') and cwidth[j] = d, calign[j] being 'left', touches no other
\* entry, and raises j by one.  "p{3cm}c" gives ralign[0] = (VTOP, "3cm",
\* "left") and columnwidth "3cm auto".
C12_BoxColumn ==
  /\ [][(WidthRead /\ c \in {"p", "m", "b"} /\ WidthToken # Undefined
           /\ matchDimen(WidthToken)) =>
          /\ DOMAIN ralign' = DOMAIN ralign \cup {j}
          /\ ralign'[j] = <<IF c = "p" THEN "VTOP"
                            ELSE IF c = "m" THEN "VCENTER" ELSE "VBOX",
                            WidthToken, "left">>
          /\ \A k \in DOMAIN ralign \ {j} : ralign'[k] = ralign[k]
          /\ calign' = calign /\ calign[j] = "left" /\ ArrLen(calign) = j + 1
          /\ DOMAIN cwidth' = DOMAIN cwidth \cup {j}
          /\ cwidth'[j] = WidthToken
          /\ \A k \in DOMAIN cwidth : cwidth'[k] = cwidth[k]
          /\ j' = j + 1
          /\ pc' = "loop"]_vars
  /\ []((template = "p{3cm}c" /\ Returned) =>
          /\ ralign[0] = <<"VTOP", "3cm", "left">>
          /\ arraydef.columnwidth = "3cm auto")

C12_Witness ==
  /\ template = "m{2em}:b{10pt}"
  /\ Returned
  /\ ralign[0] = <<"VCENTER", "2em", "left">>
  /\ ralign[1] = <<"VBOX", "10pt", "left">>
  /\ arraydef.columnwidth = "2em 10pt"

-----------------------------------------------------------------------------
(* C13 *)

\* The border positions (values of j) at which a border specifier was taken.
BorderPositions ==
  {dispatched[m].j : m \in {n \in 1..Len(dispatched) : dispatched[n].c \in Borders}}

LastBorderPosition == CHOOSE k \in BorderPositions : \A m \in BorderPositions : m <= k

\* The style of the last border specifier taken at position k, 'none' if none.
StyleAt(k) ==
  LET taken == {m \in 1..Len(dispatched) :
                  dispatched[m].c \in Borders /\ dispatched[m].j = k}
  IN  IF taken = {} THEN "none"
      ELSE IF dispatched[CHOOSE m \in taken : \A n \in taken : n <= m].c = "|"
        THEN "solid"
        ELSE "dashed"

\* C13, as the specification states it: after a successful call that took a
\* border specifier and declared n >= 1 columns, columnlines has n - 1 tokens,
\* token k the style of the last border between columns k - 1 and k, or 'none'.
C13_AsStated ==
  (Returned /\ BorderPositions # {} /\ ArrLen(calign) >= 1) =>
    Tokens(arraydef.columnlines) = [k \in 1..(ArrLen(calign) - 1) |-> StyleAt(k)]

\* C13, amended: after a successful call that took a border specifier and
\* declared n >= 1 columns, columnlines holds inter-column borders only (never
\* the left-frame or the right-frame entry): one token for each position
\* between columns up to the last position b that has a border (the style of
\* the last border taken there, or 'none'), and, if b < n - 1, exactly one more
\* token 'none' however many columns follow: min(n - 1, b + 1) tokens ("|lcc"
\* gives the one token "none").
C13_InnerLines ==
  (Returned /\ BorderPositions # {} /\ ArrLen(calign) >= 1) =>
    Tokens(arraydef.columnlines) =
      [k \in 1..Min(ArrLen(calign) - 1, LastBorderPosition + 1) |-> StyleAt(k)]

C13_Witness ==
  /\ Returned
  /\ template = "l|ccc"
  /\ arraydef.columnlines = "solid none"

-----------------------------------------------------------------------------
(* C14 *)

\* C14, as the specification states it: in every state of a call the cursor
\* satisfies 0 <= i <= template.length, and no step decreases i.
C14_AsStated ==
  /\ [](0 <= i /\ i <= Len(template))
  /\ [][i' >= i]_vars

\* C14, amended: in every state of a call the cursor satisfies
\* 0 <= i <= template.length + 1, and no step decreases i.  The cursor is at
\* template.length + 1 after a backslash that is the last character inside
\* braces, and after getBraces has read an argument at the end of the template.
C14_CursorBounds ==
  /\ [](0 <= i /\ i <= Len(template) + 1)
  /\ [][i' >= i]_vars

C14_Witness ==
  /\ template = "@{\\"
  /\ pc = "scan"
  /\ i = Len(template) + 1

-----------------------------------------------------------------------------
(* C15 *)

NonProducing == {"|", ":", ">", "<", "@", "!", " "}

\* The column-producing specifiers taken so far, by their place in the history.
ProducingTaken == {m \in 1..Len(dispatched) : dispatched[m].c \in Producing}

\* The step belongs to the handler of a specifier that produces no column.
NonProducingStep ==
  \/ pc = "loop" /\ CharAt(template, i) \in NonProducing
  \/ pc \in {"getBraces", "scan"} /\ c \in NonProducing

\* C15: between two dispatches, and when process returns, j equals
\* calign.length and the number of column-producing specifiers taken so far,
\* and clines.length <= calign.length + 1; and no step of the handlers of
\* |, :, >, <, @, ! and space changes j, calign, cwidth or ralign.
C15_ColumnCount ==
  /\ [](pc \in {"loop", "done"} =>
          /\ j = ArrLen(calign)
          /\ j = Cardinality(ProducingTaken)
          /\ ArrLen(clines) <= ArrLen(calign) + 1)
  /\ [][NonProducingStep => UNCHANGED <<j, calign, cwidth, ralign>>]_vars

C15_Witness ==
  /\ template = "lp{3cm}cc"
  /\ Returned
  /\ j = 4
  /\ ArrLen(calign) = 4

-----------------------------------------------------------------------------
(* C16 *)

\* This step ends the call of getBraces that getAlign made, with a token read.
AlignTokenRead ==
  /\ caller = "getAlign"
  /\ caller' # "getAlign"
  /\ i' > i

\* The token that call read: one character, or what the braces hold.
AlignToken ==
  IF pc = "getBraces" THEN CharAt(template, i) ELSE SubSeq(template, start + 1, i)

\* w and W read the alignment first: the step stores in calign[j] the
\* alignment for the token, and goes on to read the width.
AlignmentFirst(AlignmentFor(_)) ==
  (AlignTokenRead /\ AlignToken # Undefined) =>
    /\ c \in {"w", "W"}
    /\ DOMAIN calign' = DOMAIN calign \cup {j}
    /\ calign'[j] = AlignmentFor(AlignToken)
    /\ pc' = "getBraces"
    /\ caller' = "getDimen"
    /\ UNCHANGED <<j, cwidth, ralign>>

\* and the width second: ralign[j] becomes (VTOP, width, that alignment).
WidthSecond ==
  (WidthRead /\ c \in {"w", "W"} /\ WidthToken # Undefined
     /\ matchDimen(WidthToken)) =>
    /\ ralign'[j] = <<"VTOP", WidthToken, calign[j]>>
    /\ cwidth'[j] = WidthToken
    /\ calign' = calign
    /\ j' = j + 1

ExactAlignment(token) ==
  IF token = "l" THEN "left"
  ELSE IF token = "c" THEN "center"
  ELSE IF token = "r" THEN "right"
  ELSE ""

AnyCaseAlignment(token) ==
  IF token \in {"l", "L"} THEN "left"
  ELSE IF token \in {"c", "C"} THEN "center"
  ELSE IF token \in {"r", "R"} THEN "right"
  ELSE ""

\* C16, as the specification states it: w and W read the alignment first and
\* the width second; the alignment stored is 'left' for l, 'center' for c,
\* 'right' for r and '' for every other token (L, C, R, x and longer tokens
\* among them); the vertical class stored is VTOP.
C16_AsStated == [][AlignmentFirst(ExactAlignment) /\ WidthSecond]_vars

\* C16, amended: w and W read the alignment first and the width second; the
\* alignment stored is 'left' for l or L, 'center' for c or C, 'right' for r
\* or R (the token is lower-cased before it is looked up) and '' for every
\* other token (x and longer tokens among them); the vertical class stored is
\* VTOP.
C16_AnyCase == [][AlignmentFirst(AnyCaseAlignment) /\ WidthSecond]_vars

C16_Witness ==
  /\ template = "wC{1cm}r"
  /\ Returned
  /\ ralign[0] = <<"VTOP", "1cm", "center">>
  /\ arraydef.columnalign = "center right"

-----------------------------------------------------------------------------
(* C17 *)

\* The indices of the characters of t that the scan meets outside a
\* brace-delimited argument, going from index k: an opening brace is outside,
\* what follows it up to its closing brace is inside.
RECURSIVE OutsideFrom(_, _)
OutsideFrom(t, k) ==
  IF k >= Len(t) THEN {}
  ELSE IF CharAt(t, k) # "{" THEN {k} \cup OutsideFrom(t, k + 1)
  ELSE IF Closing(t, k) = -1 THEN {k}
  ELSE {k} \cup OutsideFrom(t, Closing(t, k) + 1)

\* Where a space may go: before a character that is outside the braces and
\* is not the first one.
Gaps(t) == OutsideFrom(t, 0) \ {0}

\* The first call, when there has been a second.
First == earlier[1]

\* The kind of an outcome: returned, or the name of the error.  What the
\* width validator does with an absent argument is one kind.
Kind(o) ==
  IF o.pc = "done" THEN "returned"
  ELSE IF o.ret = Undefined /\ o.error.name \in DimenOfUndefined
    THEN "absent width"
  ELSE o.error.name

\* The second call has ended as the first did.
SameOutcome ==
  /\ Kind(Outcome) = Kind(First)
  /\ arraydef = First.arraydef
  /\ frame = First.frame
  /\ dashed = First.dashed
  /\ ralign = First.ralign

\* The second call is over, and its template is the first one with a space
\* put in at one of the gaps.
SpacedCall ==
  /\ earlier # <<>>
  /\ pc \in {"done", "error"}
  /\ \E k \in Gaps(First.template) : template = Insert(First.template, k, " ")

\* C17: a space put in between two specifiers, or between a specifier and
\* its argument, and not inside a brace-delimited argument, does not change
\* the outcome of process: the same return or the same kind of error, and the
\* same columnalign, columnwidth, columnlines, frame, dashed and ralign.  Any
\* number of spaces is one space put in again and again: the first template
\* may hold spaces already.
C17_SpacesInsignificant == SpacedCall => SameOutcome

C17_Witness ==
  /\ SpacedCall
  /\ First.template = "w{c} {3cm}c"
  /\ template = "w {c} {3cm}c"
  /\ Returned
  /\ arraydef.columnwidth = "3cm auto"
  /\ ralign[0] = <<"VTOP", "3cm", "center">>

-----------------------------------------------------------------------------
(* C18 *)

\* getBraces returns to the handler of <, taken before any column.
EndRead ==
  /\ pc \in {"getBraces", "scan"}
  /\ c = "<"
  /\ j = 0
  /\ caller = "handler"
  /\ caller' = ""

\* The parts of the first template that are a < taken at j = 0 with the
\* argument it read: from the index of the < to the index the scan went on at.
EndParts ==
  {<<First.dispatched[m].at,
     IF m < Len(First.dispatched) THEN First.dispatched[m + 1].at
     ELSE Len(First.template)>> :
     m \in {n \in 1..Len(First.dispatched) :
              /\ First.dispatched[n].c = "<"
              /\ First.dispatched[n].j = 0
              /\ (n = Len(First.dispatched) => First.pc = "done")}}

\* The second call is over, and its template is the first one without such
\* a part.
ShortenedCall ==
  /\ earlier # <<>>
  /\ pc \in {"done", "error"}
  /\ \E part \in EndParts : template = Remove(First.template, part[1], part[2])

\* C18: < taken while j = 0 is not guarded.  Taking it raises no error; when
\* its argument has been read, the handler stores it at index -1 of cend,
\* raises no error and leaves j, calign, cwidth, clines and ralign as they
\* were; the only errors under it are those of reading the argument.  So the
\* call ends as the call on the template without the < and its argument:
\* same columnalign, columnwidth, columnlines, frame and dashed.
C18_EndBeforeFirstColumn ==
  /\ [][(pc = "loop" /\ c' = "<" /\ j = 0 /\ i' # i) =>
          (pc' = "getBraces" /\ error' = NoError)]_vars
  /\ [][EndRead =>
          /\ i' > i
          /\ DOMAIN cend' = DOMAIN cend \cup {-1}
          /\ cend'[-1] = ret'
          /\ \A k \in DOMAIN cend \ {-1} : cend'[k] = cend[k]
          /\ pc' = "loop"
          /\ error' = NoError
          /\ UNCHANGED <<j, calign, cwidth, clines, ralign>>]_vars
  /\ []((Failed /\ c = "<" /\ j = 0) =>
          error.name \in {"MissingCloseBrace", "MissingArgForColumn"})
  /\ [](ShortenedCall =>
          /\ Kind(Outcome) = Kind(First)
          /\ arraydef = First.arraydef
          /\ frame = First.frame
          /\ dashed = First.dashed)

C18_Witness ==
  /\ ShortenedCall
  /\ First.template = "|<{x}l"
  /\ First.pc = "done"
  /\ template = "|l"
  /\ Returned
  /\ arraydef.columnalign = "left"
  /\ frame = <<"left">>

-----------------------------------------------------------------------------
(* C19 *)

\* The keys whose option is set, in the order of the keys.
Wanted == SelectSeq(Keys, LAMBDA key : a11y[key])

\* How many times the log holds the entry.
Count(log, entry) == Cardinality({n \in 1..Len(log) : log[n] = entry})

\* The place of a key among the keys.
Place(key) == CHOOSE n \in 1..Len(Keys) : Keys[n] = key

\* The key explorer is the last one, in the order of the keys, whose option
\* is set.
LastWanted(key) ==
  /\ a11y[key]
  /\ \A other \in KeyExplorers : Place(other) > Place(key) => ~a11y[other]

\* C19: after attach(), whatever the options: attached lists the keys whose
\* option is set, each once and in the order of the keys; Attach() was called
\* once on each of their explorers and Detach() once on each of the others;
\* and a key explorer is stoppable exactly when it is the last key explorer
\* whose option is set, so none is when no key explorer is attached.
C19_Attached ==
  (op = "attach") =>
    /\ attached = Wanted
    /\ Len(calls) = Len(Keys)
    /\ \A key \in KeySet :
         /\ Count(calls, <<key, "Attach">>) = IF a11y[key] THEN 1 ELSE 0
         /\ Count(calls, <<key, "Detach">>) = IF a11y[key] THEN 0 ELSE 1
         /\ explorers[key].attached = a11y[key]
    /\ \A key \in KeyExplorers : explorers[key].stoppable = LastWanted(key)

C19_Witness ==
  /\ op = "attach"
  /\ a11y["braille"] /\ a11y["speech"] /\ ~a11y["keyMagnifier"]
  /\ a11y["mouseMagnifier"] /\ a11y["hover"]
  /\ attached = <<"braille", "speech", "mouseMagnifier", "hover">>
  /\ explorers["speech"].stoppable
  /\ ~explorers["braille"].stoppable
  /\ ~explorers["keyMagnifier"].stoppable

-----------------------------------------------------------------------------
(* C20 *)

\* The keys a list holds.
Listed(list) == {list[n] : n \in 1..Len(list)}

\* The step is a call of reattach(), and one of Restart().
ReattachCall == op' = "reattach" /\ (op # "reattach" \/ before' # before)
RestartCall == op' = "Restart" /\ (op # "Restart" \/ calls' # calls)

\* The attached explorers that are active.
ActiveAttached == {key \in Listed(attached) : explorers[key].active}

\* restart holds no key twice, and only keys of attached.
RestartKept ==
  /\ Cardinality(Listed(restart)) = Len(restart)
  /\ Listed(restart) \subseteq Listed(attached)

\* reattach() stops the attached explorers that are active, no other, and
\* records them.
StopsActive ==
  ReattachCall =>
    /\ Len(calls') = Cardinality(ActiveAttached)
    /\ \A key \in ActiveAttached : Count(calls', <<key, "Stop">>) = 1
    /\ Len(restart') = Len(restart) + Cardinality(ActiveAttached)
    /\ Listed(restart') = Listed(restart) \cup ActiveAttached
    /\ \A key \in KeySet :
         explorers'[key].active = (explorers[key].active /\ key \notin ActiveAttached)

\* Restart() starts each recorded explorer once, no other, and empties restart.
StartsRecorded ==
  RestartCall =>
    /\ Len(calls') = Len(restart)
    /\ \A key \in Listed(restart) : Count(calls', <<key, "Start">>) = 1
    /\ restart' = <<>>
    /\ \A key \in KeySet :
         explorers'[key].active = (explorers[key].active \/ key \in Listed(restart))

\* C20, as the specification states it: whatever calls of reattach() and
\* Restart() are made, restart holds no key twice and only keys of attached;
\* reattach() stops exactly the attached explorers that are active and
\* records them; Restart() starts each recorded explorer once and empties
\* restart; and after Restart() every active flag is what it was before the
\* reattach() that came just before.
C20_AsStated ==
  /\ []RestartKept
  /\ [][StopsActive]_vars
  /\ [][StartsRecorded]_vars
  /\ []((op = "Restart" /\ before # <<>>) => Active = before[Len(before)])

\* C20: the same, but after Restart() every active flag is what it was before
\* the first reattach() since the last Restart(), the one that found restart
\* empty: a reattach() that follows another finds the explorers stopped.
C20_RestoredAfterRestart ==
  /\ []RestartKept
  /\ [][StopsActive]_vars
  /\ [][StartsRecorded]_vars
  /\ []((op = "Restart" /\ before # <<>>) => Active = before[1])

C20_Witness ==
  /\ op = "Restart"
  /\ Len(before) = 2
  /\ before[1]["speech"] /\ ~before[2]["speech"]
  /\ attached = <<"speech", "hover">>
  /\ calls = <<<<"speech", "Start">>>>
  /\ explorers["speech"].active
  /\ ~explorers["hover"].active
  /\ restart = <<>>

====
